---- MODULE Spec2Model ----
(***************************************************************************)
(* Model of scrape_rules.py: the page joiner, the section splitter, the    *)
(* snippet maker and the per-sport loop of main.                           *)
(*                                                                         *)
(* A Python str is a sequence of one-character strings.  Offsets are the   *)
(* 0-based offsets of the Python code: the character at offset p of text   *)
(* is text[p + 1], and Slice(text, a, b) is text[a:b].                     *)
(***************************************************************************)
EXTENDS Integers, Sequences, FiniteSets, TLC

\* ------------------------------------------------------------------------
\* Characters
\* ------------------------------------------------------------------------

NL == "\n"
EmDash == "EM DASH"
EnDash == "EN DASH"
Ellipsis == "ELLIPSIS"

\* \s of the re module and the characters str.strip() removes.
IsSpace(c) == c \in {" ", NL, "\t"}

DigitChars == <<"0", "1", "2", "3", "4", "5", "6", "7", "8", "9">>

\* \d of the re module.
IsDigit(c) == \E i \in 1..10 : DigitChars[i] = c

DigitVal(c) == (CHOOSE i \in 1..10 : DigitChars[i] = c) - 1

UpperChars == <<"A", "B", "C", "D", "E", "F", "G", "H", "I", "J", "K", "L", "M",
                "N", "O", "P", "Q", "R", "S", "T", "U", "V", "W", "X", "Y", "Z">>

LowerChars == <<"a", "b", "c", "d", "e", "f", "g", "h", "i", "j", "k", "l", "m",
                "n", "o", "p", "q", "r", "s", "t", "u", "v", "w", "x", "y", "z">>

\* str.lower() on one character; also the case folding of re.IGNORECASE.
Lower(c) ==
    IF \E i \in 1..26 : UpperChars[i] = c
    THEN LowerChars[CHOOSE i \in 1..26 : UpperChars[i] = c]
    ELSE c

\* \w of the re module (letters, digits, underscore).
IsWord(c) ==
    \/ IsDigit(c)
    \/ c = "_"
    \/ \E i \in 1..26 : UpperChars[i] = c \/ LowerChars[i] = c

\* ------------------------------------------------------------------------
\* str primitives
\* ------------------------------------------------------------------------

Min(S) == CHOOSE x \in S : \A y \in S : x <= y
Max(S) == CHOOSE x \in S : \A y \in S : x >= y

\* text[a:b] for 0 <= a, with b clamped to the length as Python does.
Slice(text, a, b) ==
    LET hi == IF b > Len(text) THEN Len(text) ELSE b
    IN  IF a >= hi THEN <<>> ELSE SubSeq(text, a + 1, hi)

\* text.startswith(pat, p)
StartsWithAt(text, pat, p) ==
    /\ p + Len(pat) <= Len(text)
    /\ \A k \in 1..Len(pat) : text[p + k] = pat[k]

\* The same, under re.IGNORECASE; pat is given in lower case.
StartsWithAtI(text, pat, p) ==
    /\ p + Len(pat) <= Len(text)
    /\ \A k \in 1..Len(pat) : Lower(text[p + k]) = pat[k]

SpaceChars == {" ", NL, "\t"}
DigitSet == {DigitChars[i] : i \in 1..10}

\* The offset of the first character at or after offset p whose membership
\* in the class S is member, or the length of text: where a greedy run of
\* the other characters that starts at p ends.
Scan(text, p, S, member) ==
    IF \E q \in p..(Len(text) - 1) : (text[q + 1] \in S) = member
    THEN CHOOSE q \in p..(Len(text) - 1) :
            /\ (text[q + 1] \in S) = member
            /\ \A r \in p..(q - 1) : (text[r + 1] \in S) # member
    ELSE Len(text)

NotSpace(c) == ~IsSpace(c)

\* Where a greedy \s* starting at offset p ends.
SkipSpace(text, p) == Scan(text, p, SpaceChars, FALSE)

\* Where a greedy \d* starting at offset p ends.
SkipDigits(text, p) == Scan(text, p, DigitSet, FALSE)

\* Where [^\n]* starting at p ends: the offset of the next newline, or the end.
LineEnd(text, p) == Scan(text, p, {NL}, TRUE)

\* str.strip()
Strip(s) ==
    LET first == SkipSpace(s, 0)
        last == CHOOSE i \in 1..Len(s) :
                   /\ ~IsSpace(s[i])
                   /\ \A j \in (i + 1)..Len(s) : IsSpace(s[j])
    IN  IF first = Len(s) THEN <<>> ELSE SubSeq(s, first + 1, last)

\* re.sub(r"\s+", " ", s): every maximal whitespace run becomes one space,
\* so a whitespace character stays (as a space) only when it starts a run.
CollapseWs(s) ==
    LET Kept(i) == ~IsSpace(s[i]) \/ i = 1 \/ ~IsSpace(s[i - 1])
        idx == SelectSeq([i \in 1..Len(s) |-> i], Kept)
    IN  [k \in 1..Len(idx) |-> IF IsSpace(s[idx[k]]) THEN " " ELSE s[idx[k]]]

\* str.replace(old, new) for a one-character old, from offset p on: the text
\* up to the next occurrence is copied and the occurrence becomes new.
RECURSIVE ReplaceFrom(_, _, _, _)
ReplaceFrom(s, old, new, p) ==
    LET hit == Scan(s, p, {old}, TRUE)
    IN  IF hit = Len(s) THEN Slice(s, p, Len(s))
        ELSE Slice(s, p, hit) \o new \o ReplaceFrom(s, old, new, hit + 1)

Replace(s, old, new) == ReplaceFrom(s, old, new, 0)

\* The decimal digits of n >= 0, as f"{n}" writes them.
RECURSIVE IntToStr(_)
IntToStr(n) ==
    IF n < 10 THEN <<DigitChars[n + 1]>>
    ELSE IntToStr(n \div 10) \o <<DigitChars[(n % 10) + 1]>>

\* int(s) for a string of decimal digits.
RECURSIVE StrToInt(_)
StrToInt(s) ==
    IF Len(s) = 0 THEN 0
    ELSE 10 * StrToInt(SubSeq(s, 1, Len(s) - 1)) + DigitVal(s[Len(s)])

\* ------------------------------------------------------------------------
\* split_into_sections
\* ------------------------------------------------------------------------

SliceLen == 5000

None == <<>>
Some(n) == <<n>>

FullDocument == <<"F", "u", "l", "l", " ", "D", "o", "c", "u", "m", "e", "n", "t">>

PageLiteral == <<"[", "P", "A", "G", "E">>

\* Normalize with the second replace left out.
Normalize_EmOnly(full_text) ==
    Replace(full_text, EmDash, <<" ", "-", " ">>)

\* text = full_text.replace(em dash, " - ").replace(en dash, "-")
Normalize(full_text) ==
    Replace(Replace(full_text, EmDash, <<" ", "-", " ">>), EnDash, <<"-">>)

\* The alternatives KEYWORD\s+\d+ of the heading pattern, case folded.
NumberedKeywords == {
    <<"r", "u", "l", "e">>,
    <<"s", "e", "c", "t", "i", "o", "n">>,
    <<"a", "r", "t", "i", "c", "l", "e">>,
    <<"c", "h", "a", "p", "t", "e", "r">>}

\* The bare alternatives of the heading pattern, case folded.
BareKeywords == {
    <<"p", "o", "i", "n", "t", "s", " ", "o", "f", " ", "e", "m", "p", "h", "a", "s", "i", "s">>,
    <<"t", "a", "b", "l", "e", " ", "r", "e", "f", "e", "r", "e", "n", "c", "e", " ", "s", "h", "e", "e", "t">>,
    <<"a", "p", "p", "e", "n", "d", "i", "x">>,
    <<"i", "n", "t", "e", "r", "p", "r", "e", "t", "a", "t", "i", "o", "n", "s">>,
    <<"d", "e", "f", "i", "n", "i", "t", "i", "o", "n", "s">>}

\* The capture group of the heading pattern tried at offset r: the offset
\* where it ends, or -1.  No keyword is a prefix of another, so at most one
\* alternative matches at r.
KeywordEnd(text, r) ==
    LET num == {w \in NumberedKeywords :
                   /\ StartsWithAtI(text, w, r)
                   /\ SkipSpace(text, r + Len(w)) > r + Len(w)
                   /\ SkipDigits(text, SkipSpace(text, r + Len(w)))
                        > SkipSpace(text, r + Len(w))}
        bare == {w \in BareKeywords : StartsWithAtI(text, w, r)}
    IN  IF num # {}
        THEN LET w == CHOOSE w \in num : TRUE
             IN  SkipDigits(text, SkipSpace(text, r + Len(w)))
        ELSE IF bare # {}
        THEN LET w == CHOOSE w \in bare : TRUE IN r + Len(w)
        ELSE -1

\* The heading pattern (?:\n|^)\s*(...)[^\n]* tried at offset p: the offset
\* where the match ends, or -1.  Without re.MULTILINE ^ is offset 0 only.
\* Every keyword starts with a letter, so \s* can only stop at the first
\* character that is not whitespace.
HeadingMatchEnd(text, p) ==
    LET anchored == (p < Len(text) /\ text[p + 1] = NL) \/ p = 0
        q == IF p < Len(text) /\ text[p + 1] = NL THEN p + 1 ELSE p
        k == KeywordEnd(text, SkipSpace(text, q))
    IN  IF anchored /\ k # -1 THEN LineEnd(text, k) ELSE -1

\* list(re.finditer(pattern, text)) from offset pos on: the leftmost match,
\* then the matches after its end.  A match is never empty.
RECURSIVE FindHeadings(_, _)
FindHeadings(text, pos) ==
    LET starts == {p \in pos..Len(text) : HeadingMatchEnd(text, p) # -1}
    IN  IF starts = {} THEN <<>>
        ELSE LET s == Min(starts)
                 e == HeadingMatchEnd(text, s)
             IN  <<[start |-> s, end |-> e]>> \o FindHeadings(text, e)

\* text.rfind(pat, lo, hi)
RFind(text, pat, lo, hi) ==
    LET occ == {p \in lo..hi : p + Len(pat) <= hi /\ StartsWithAt(text, pat, p)}
    IN  IF occ = {} THEN -1 ELSE Max(occ)

\* \[PAGE\s+(\d+)\] tried at offset p of s: the offsets of the digit group,
\* or <<>>.
MarkerGroupAt(s, p) ==
    LET a == p + Len(PageLiteral)
        b == SkipSpace(s, a)
        c == SkipDigits(s, b)
    IN  IF /\ StartsWithAt(s, PageLiteral, p)
           /\ b > a
           /\ c > b
           /\ c < Len(s)
           /\ s[c + 1] = "]"
        THEN <<b, c>> ELSE <<>>

\* PageNum with the slice text[page_search: start-1].
PageNum_ShortSlice(text, start) ==
    LET page_search == RFind(text, PageLiteral, 0, start)
        s == Slice(text, page_search, start - 1)
        found == {p \in 0..Len(s) : MarkerGroupAt(s, p) # <<>>}
    IN  IF page_search = -1 \/ found = {} THEN None
        ELSE LET g == MarkerGroupAt(s, Min(found))
             IN  Some(StrToInt(Slice(s, g[1], g[2])))

\* Lines 110-115: the page number of a heading match starting at start.
PageNum(text, start) ==
    LET page_search == RFind(text, PageLiteral, 0, start)
        s == Slice(text, page_search, start + 1)
        found == {p \in 0..Len(s) : MarkerGroupAt(s, p) # <<>>}
    IN  IF page_search = -1 \/ found = {} THEN None
        ELSE LET g == MarkerGroupAt(s, Min(found))
             IN  Some(StrToInt(Slice(s, g[1], g[2])))

\* SectionOf with content = text[match.start():end].
SectionOf_FromMatchStart(text, heading_iter, idx) ==
    LET match == heading_iter[idx]
        end == IF idx + 1 <= Len(heading_iter)
               THEN heading_iter[idx + 1].start ELSE Len(text)
        title == Strip(Slice(text, match.start, match.end))
    IN  [title |-> Strip(CollapseWs(title)),
         content |-> Strip(Slice(text, match.start, end)),
         start_page |-> PageNum(text, match.start)]

\* SectionOf with end = heading_iter[idx+1].end().
SectionOf_ToNextEnd(text, heading_iter, idx) ==
    LET match == heading_iter[idx]
        end == IF idx + 1 <= Len(heading_iter)
               THEN heading_iter[idx + 1].end ELSE Len(text)
        title == Strip(Slice(text, match.start, match.end))
    IN  [title |-> Strip(CollapseWs(title)),
         content |-> Strip(Slice(text, match.end, end)),
         start_page |-> PageNum(text, match.start)]

\* Lines 104-121: the item of the idx-th match (idx counts from 1 here).
SectionOf(text, heading_iter, idx) ==
    LET match == heading_iter[idx]
        end == IF idx + 1 <= Len(heading_iter)
               THEN heading_iter[idx + 1].start ELSE Len(text)
        title == Strip(Slice(text, match.start, match.end))
    IN  [title |-> Strip(CollapseWs(title)),
         content |-> Strip(Slice(text, match.end, end)),
         start_page |-> PageNum(text, match.start)]

\* split_into_sections with the fallback content text instead of text[:5000].
split_into_sections_NoSlice(full_text) ==
    LET text == Normalize(full_text)
        heading_iter == FindHeadings(text, 0)
    IN  IF heading_iter = <<>>
        THEN <<[title |-> FullDocument,
                content |-> text,
                start_page |-> Some(1)]>>
        ELSE [idx \in 1..Len(heading_iter) |-> SectionOf(text, heading_iter, idx)]

split_into_sections(full_text) ==
    LET text == Normalize(full_text)
        heading_iter == FindHeadings(text, 0)
    IN  IF heading_iter = <<>>
        THEN <<[title |-> FullDocument,
                content |-> Slice(text, 0, SliceLen),
                start_page |-> Some(1)]>>
        ELSE [idx \in 1..Len(heading_iter) |-> SectionOf(text, heading_iter, idx)]

\* ------------------------------------------------------------------------
\* join_pages, make_snippet
\* ------------------------------------------------------------------------

SnippetLen == 200

\* PageBlock with the marker [PAGE {i}].
PageBlock_ZeroBased(i, p) ==
    PageLiteral \o <<" ">> \o IntToStr(i) \o <<"]", NL>> \o p

\* f"[PAGE {i+1}]\n{p}" for the page p at index i.
PageBlock(i, p) ==
    PageLiteral \o <<" ">> \o IntToStr(i + 1) \o <<"]", NL>> \o p

\* "\n\n".join(...) over the pages from index i on.
RECURSIVE JoinFrom(_, _)
JoinFrom(pages, i) ==
    IF i >= Len(pages) THEN <<>>
    ELSE IF i = Len(pages) - 1 THEN PageBlock(i, pages[i + 1])
    ELSE PageBlock(i, pages[i + 1]) \o <<NL, NL>> \o JoinFrom(pages, i + 1)

join_pages(pages) == JoinFrom(pages, 0)

\* make_snippet with the marker decided by len(s) instead of len(txt).
make_snippet_MarkByInput(s) ==
    LET txt == Strip(CollapseWs(s))
    IN  Slice(txt, 0, SnippetLen) \o (IF Len(s) > SnippetLen THEN <<Ellipsis>> ELSE <<>>)

make_snippet(s) ==
    LET txt == Strip(CollapseWs(s))
    IN  Slice(txt, 0, SnippetLen) \o (IF Len(txt) > SnippetLen THEN <<Ellipsis>> ELSE <<>>)

\* ------------------------------------------------------------------------
\* Configuration
\* ------------------------------------------------------------------------

\* SPORTS_RULEBOOKS.items(), in insertion order.
RulebookTable == <<
    [sport |-> <<"W", "o", "m", "e", "n", "'", "s", " ", "L", "a", "c", "r", "o", "s", "s", "e">>,
     url |-> "https://cdn1.sportngin.com/attachments/document/3c7d-3127216/WLRules2024_2025.pdf"],
    [sport |-> <<"M", "e", "n", "'", "s", " ", "B", "a", "s", "k", "e", "t", "b", "a", "l", "l">>,
     url |-> "https://cdn1.sportngin.com/attachments/document/e0d1-2810991/2023-2024_Mens_BBall_Rules_Book.pdf"],
    [sport |-> <<"W", "o", "m", "e", "n", "'", "s", " ", "B", "a", "s", "k", "e", "t", "b", "a", "l", "l">>,
     url |-> "https://ncaaorg.s3.amazonaws.com/championships/sports/basketball/d1/2024-25WBB_OfficialPlayingRules.pdf"],
    [sport |-> <<"M", "e", "n", "'", "s", " ", "S", "o", "c", "c", "e", "r">>,
     url |-> "https://cdn1.sportngin.com/attachments/document/18d0-3216650/2024-2025_Rule_Book.pdf"],
    [sport |-> <<"W", "o", "m", "e", "n", "'", "s", " ", "S", "o", "c", "c", "e", "r">>,
     url |-> "https://cdn1.sportngin.com/attachments/document/18d0-3216650/2024-2025_Rule_Book.pdf"],
    [sport |-> <<"V", "o", "l", "l", "e", "y", "b", "a", "l", "l">>,
     url |-> "https://www.ncaapublications.com/productdownloads/VBR24.pdf"],
    [sport |-> <<"M", "e", "n", "'", "s", " ", "G", "o", "l", "f">>,
     url |-> "https://www.usga.org/rules/rules-and-clarifications/rules-and-clarifications.html#!ruletype=pe&section=rule&rulenum=1"],
    [sport |-> <<"W", "o", "m", "e", "n", "'", "s", " ", "G", "o", "l", "f">>,
     url |-> "https://www.usga.org/rules/rules-and-clarifications/rules-and-clarifications.html#!ruletype=pe&section=rule&rulenum=1"],
    [sport |-> <<"M", "e", "n", "'", "s", " ", "T", "e", "n", "n", "i", "s">>,
     url |-> "https://ncaaorg.s3.amazonaws.com/championships/sports/tennis/rules/2022-23PRXTE_ITARulesBook.pdf"],
    [sport |-> <<"W", "o", "m", "e", "n", "'", "s", " ", "T", "e", "n", "n", "i", "s">>,
     url |-> "https://ncaaorg.s3.amazonaws.com/championships/sports/tennis/rules/2022-23PRXTE_ITARulesBook.pdf"]>>

\* The number of configured sports the model runs main over.
NumSports == 2

SPORTS_RULEBOOKS == SubSeq(RulebookTable, 1, NumSports)

GeneratedAt == "2024-2025 season"

RuleInfix == <<"-", "r", "u", "l", "e", "-">>

\* ------------------------------------------------------------------------
\* process_sport, main
\* ------------------------------------------------------------------------

\* [^\w\s-] is removed from the sport name.
KeptInFilename(c) == IsWord(c) \/ IsSpace(c) \/ c = "-"

\* filename = re.sub(r'[^\w\s-]', '', sport_name).replace(' ', '_').lower()
Filename(sport_name) ==
    LET kept == SelectSeq(sport_name, KeptInFilename)
    IN  [i \in 1..Len(kept) |-> IF kept[i] = " " THEN "_" ELSE Lower(kept[i])]

\* SectionId with the id f"{filename}-rule-{i}".
SectionId_ZeroBased(prefix, i) == prefix \o RuleInfix \o IntToStr(i)

\* s["id"] = f"{filename}-rule-{i+1}" for the section at index i.
SectionId(prefix, i) == prefix \o RuleInfix \o IntToStr(i + 1)

\* The body of the loop of lines 148-152 for the section s at index i.
FinishSection(prefix, i, s) ==
    LET content == IF "content" \in DOMAIN s THEN s.content ELSE <<>>
    IN  [id |-> SectionId(prefix, i),
         title |-> s.title,
         content |-> s.content,
         snippet |-> make_snippet(content),
         start_page |-> IF "start_page" \in DOMAIN s THEN s.start_page ELSE None]

VARIABLES
    pc,              \* where main / process_sport stands
    sport_i,         \* index of the current entry of SPORTS_RULEBOOKS (from 0)
    filename,        \* process_sport: filename
    pages,           \* process_sport: pages
    full_text,       \* process_sport: full_text, the argument of the splitter
    text,            \* split_into_sections: text
    heading_iter,    \* split_into_sections: heading_iter
    sections,        \* process_sport: sections
    all_sports_data, \* main: all_sports_data
    stdout,          \* what the print calls have written
    output           \* the document written to JSON_PATH, <<>> before that

vars == <<pc, sport_i, filename, pages, full_text, text, heading_iter,
          sections, all_sports_data, stdout, output>>

Sport == SPORTS_RULEBOOKS[sport_i + 1]

\* process_sport returns to the loop of main, which takes the next entry.
Return ==
    /\ pc' = "main_loop"
    /\ sport_i' = sport_i + 1
    /\ filename' = <<>>
    /\ pages' = <<>>
    /\ full_text' = <<>>
    /\ text' = <<>>
    /\ heading_iter' = <<>>
    /\ sections' = <<>>

\* Lines 168-169, 130-139: main calls process_sport, which calls download_pdf.
Download ==
    /\ pc = "main_loop"
    /\ sport_i < Len(SPORTS_RULEBOOKS)
    /\ \E ok \in BOOLEAN :
          IF ok
          THEN /\ stdout' = stdout \o <<<<"Processing", Sport.sport>>, <<"Downloaded">>>>
               /\ pc' = "extract"
               /\ filename' = Filename(Sport.sport)
               /\ UNCHANGED <<sport_i, pages, full_text, text, heading_iter, sections>>
          ELSE /\ stdout' = stdout \o <<<<"Processing", Sport.sport>>, <<"Failed to download">>>>
               /\ Return
    /\ UNCHANGED <<all_sports_data, output>>

\* Extract without the test "if not pages: return None".
Extract_KeepsEmpty(PageSeqs) ==
    /\ pc = "extract"
    /\ \/ \E ps \in PageSeqs :
             /\ stdout' = Append(stdout, <<"Extracted", Len(ps)>>)
             /\ pages' = ps
       \/ /\ stdout' = Append(stdout, <<"Failed to extract">>)
          /\ pages' = <<>>
    /\ pc' = "join"
    /\ UNCHANGED <<sport_i, filename, full_text, text, heading_iter, sections,
                   all_sports_data, output>>

\* Lines 141-143, 71-83: extract_pages_text returns the page texts, or [] when
\* pdfplumber raises; process_sport gives up on an empty list.
Extract(PageSeqs) ==
    /\ pc = "extract"
    /\ \/ \E ps \in PageSeqs :
             /\ stdout' = Append(stdout, <<"Extracted", Len(ps)>>)
             /\ IF ps = <<>>
                THEN Return
                ELSE /\ pages' = ps
                     /\ pc' = "join"
                     /\ UNCHANGED <<sport_i, filename, full_text, text, heading_iter, sections>>
       \/ /\ stdout' = Append(stdout, <<"Failed to extract">>)
          /\ Return
    /\ UNCHANGED <<all_sports_data, output>>

\* Line 145
Join ==
    /\ pc = "join"
    /\ full_text' = join_pages(pages)
    /\ pc' = "split"
    /\ UNCHANGED <<sport_i, filename, pages, text, heading_iter, sections,
                   all_sports_data, stdout, output>>

\* Line 146, 89-123
Split ==
    /\ pc = "split"
    /\ text' = Normalize(full_text)
    /\ heading_iter' = FindHeadings(Normalize(full_text), 0)
    /\ sections' = split_into_sections(full_text)
    /\ pc' = "finish"
    /\ UNCHANGED <<sport_i, filename, pages, full_text, all_sports_data, stdout, output>>

\* Lines 148-160, 170-171: the finishing loop, the return of the record and
\* its append to all_sports_data.
Finish ==
    /\ pc = "finish"
    /\ LET finished == [k \in 1..Len(sections) |->
                           FinishSection(filename, k - 1, sections[k])]
       IN  /\ stdout' = Append(stdout, <<"Processed", Len(finished)>>)
           /\ all_sports_data' = Append(all_sports_data,
                                        [sport |-> Sport.sport,
                                         source_url |-> Sport.url,
                                         sections |-> finished])
    /\ Return
    /\ UNCHANGED output

\* Lines 174-180
WriteJson ==
    /\ pc = "main_loop"
    /\ sport_i = Len(SPORTS_RULEBOOKS)
    /\ output' = <<[sports |-> all_sports_data, generated_at |-> GeneratedAt]>>
    /\ stdout' = Append(stdout, <<"Successfully processed", Len(all_sports_data)>>)
    /\ pc' = "done"
    /\ UNCHANGED <<sport_i, filename, pages, full_text, text, heading_iter,
                   sections, all_sports_data>>

\* ------------------------------------------------------------------------
\* Inputs
\* ------------------------------------------------------------------------

RECURSIVE Concat(_)
Concat(ss) == IF ss = <<>> THEN <<>> ELSE Head(ss) \o Concat(Tail(ss))

SeqsUpTo(S, n) == UNION {[1..k -> S] : k \in 0..n}

\* n characters repeating unit.
Rep(unit, n) == [i \in 1..n |-> unit[((i - 1) % Len(unit)) + 1]]

\* What extract_pages_text returns in the runs of main.
MainPageSeqs == {
    <<>>,
    <<<<"x">>>>,
    <<<<"R", "U", "L", "E", " ", "1", " ", "a", NL, "b">>,
      <<"R", "u", "l", "e", " ", "2">>>>,
    <<<<>>,
      <<"x", NL, " ", "A", "p", "p", "e", "n", "d", "i", "x", NL, NL, "y">>>>}

\* The page texts of the joiner and splitter runs.
PageTexts ==
    {<<>>,
     <<"x">>,
     <<"R", "U", "L", "E", " ", "1", " ", "a", NL, "b", " ", EmDash, "c">>,
     <<"x", NL, " ", "A", "p", "p", "e", "n", "d", "i", "x", NL, NL, "y">>,
     <<"[", "P", "A", "G", "E", " ", "7", "]", NL, "R", "u", "l", "e", " ", "7">>,
     <<"s", "e", "e", " ", "[", "P", "A", "G", "E", NL, "r", "u", "l", "e", " ", "2">>,
     <<"a", " ", NL, NL>>,
     <<"D", "e", "f", "i", "n", "i", "t", "i", "o", "n", "s">>}

MaxPages == 3

\* A run of many pages, so that page numbers and ids have two digits.
ManyPages == 11

\* How far around SnippetLen the lengths of the long pages go.
Margin == 12

LongUnits == {<<"x">>, <<"x", " ">>, <<"x", NL, " ">>}

LongPages ==
    {head \o Rep(u, n) \o tail :
        head \in {<<>>, <<"R", "u", "l", "e", " ", "1", NL>>},
        u \in LongUnits,
        n \in (SnippetLen - Margin)..(SnippetLen + Margin),
        tail \in {<<>>, <<" ">>}}

PipelinePageSeqs ==
    (SeqsUpTo(PageTexts, MaxPages) \ {<<>>})
        \cup {<<p>> : p \in LongPages}
        \cup {[i \in 1..ManyPages |-> p] : p \in {<<>>, <<"R", "u", "l", "e", " ", "1">>}}

\* The pieces the arguments of the splitter runs are made of.
Fragments ==
    {<<NL>>,
     <<" ">>,
     <<"x">>,
     <<"R", "u", "l", "e", " ", "1", NL>>,
     <<NL, "A", "P", "P", "E", "N", "D", "I", "X", " ", "b">>,
     <<"[", "P", "A", "G", "E", " ", "1", "]", NL>>,
     <<"[", "P", "A", "G", "E">>,
     <<"[", "P", "A", "G", "E", " ", "1", "2", "]">>,
     <<EmDash>>,
     <<EnDash>>,
     <<"c", "h", "a", "p", "t", "e", "r">>,
     <<"2">>}

MaxFrags == 3

SplitInputs ==
    {Concat(fs) : fs \in SeqsUpTo(Fragments, MaxFrags)}
        \cup {Rep(<<"x">>, n) \o Concat(fs) :
                 n \in (SliceLen - 1)..(SliceLen + 1), fs \in SeqsUpTo(Fragments, 1)}

\* ------------------------------------------------------------------------
\* Specifications
\* ------------------------------------------------------------------------

\* main over SPORTS_RULEBOOKS.
Init ==
    /\ pc = "main_loop"
    /\ sport_i = 0
    /\ filename = <<>>
    /\ pages = <<>>
    /\ full_text = <<>>
    /\ text = <<>>
    /\ heading_iter = <<>>
    /\ sections = <<>>
    /\ all_sports_data = <<>>
    /\ stdout = <<>>
    /\ output = <<>>

ExtractMain == Extract(MainPageSeqs)

Next == Download \/ ExtractMain \/ Join \/ Split \/ Finish \/ WriteJson

Spec == Init /\ [][Next]_vars

\* process_sport for the first sport from the point where its pages have
\* been extracted.
InitPipeline ==
    /\ pc = "join"
    /\ sport_i = 0
    /\ filename = Filename(Sport.sport)
    /\ pages \in PipelinePageSeqs
    /\ full_text = <<>>
    /\ text = <<>>
    /\ heading_iter = <<>>
    /\ sections = <<>>
    /\ all_sports_data = <<>>
    /\ stdout = <<<<"Processing", Sport.sport>>, <<"Downloaded">>, <<"Extracted", Len(pages)>>>>
    /\ output = <<>>

NextPipeline == Join \/ Split \/ Finish

SpecPipeline == InitPipeline /\ [][NextPipeline]_vars

\* join_pages applied to any sequence of pages.
InitJoin ==
    /\ pc = "join"
    /\ sport_i = 0
    /\ filename = <<>>
    /\ pages \in PipelinePageSeqs \cup {<<>>}
    /\ full_text = <<>>
    /\ text = <<>>
    /\ heading_iter = <<>>
    /\ sections = <<>>
    /\ all_sports_data = <<>>
    /\ stdout = <<>>
    /\ output = <<>>

NextJoin == Join

SpecJoin == InitJoin /\ [][NextJoin]_vars

\* split_into_sections applied to any string.
InitSplit ==
    /\ pc = "split"
    /\ sport_i = 0
    /\ filename = <<>>
    /\ pages = <<>>
    /\ full_text \in SplitInputs
    /\ text = <<>>
    /\ heading_iter = <<>>
    /\ sections = <<>>
    /\ all_sports_data = <<>>
    /\ stdout = <<>>
    /\ output = <<>>

NextSplit == Split

SpecSplit == InitSplit /\ [][NextSplit]_vars

\* ------------------------------------------------------------------------
\* Heading matches and page markers, stated without the scan
\* ------------------------------------------------------------------------

\* The offsets of t where a heading keyword stands at the start of a line:
\* only whitespace lies between the keyword and the preceding newline, or
\* between the keyword and the start of t.
HeadingStarts(t) ==
    {q \in 0..(Len(t) - 1) :
        /\ q = 0 \/ IsSpace(t[q])
        /\ \E r \in 0..q :
              /\ \A j \in r..(q - 1) : IsSpace(t[j + 1])
              /\ r = 0 \/ t[r + 1] = NL
        /\ KeywordEnd(t, q) # -1}

\* The k-th smallest element of a set of numbers.
Kth(S, k) == CHOOSE x \in S : Cardinality({y \in S : y < x}) = k - 1

\* The offset where the line of the heading that starts at q ends.
HeadingLineEnd(t, q) == LineEnd(t, KeywordEnd(t, q))

\* The offsets of t where a page marker [PAGE n] starts.
MarkerStarts(t) == {p \in 0..(Len(t) - 1) : MarkerGroupAt(t, p) # <<>>}

\* The offset just after the marker at p, and the number the marker carries.
MarkerEnd(t, p) == MarkerGroupAt(t, p)[2] + 1
MarkerNumber(t, p) == StrToInt(Slice(t, MarkerGroupAt(t, p)[1], MarkerGroupAt(t, p)[2]))

Split_done == pc = "finish"

\* ------------------------------------------------------------------------
\* Properties of split_into_sections
\* ------------------------------------------------------------------------

\* C1: when the text has k >= 1 heading matches the splitter returns k
\* sections in heading order; the content of the i-th is the trimmed text
\* between the end of the i-th heading's line and the (i+1)-th heading match
\* (the end of the text for the last), and the heading's own text lies inside
\* the i-th match, which no content range overlaps.
C1_SectionsBetweenHeadings ==
    (Split_done /\ HeadingStarts(full_text) # {}) =>
        LET H == HeadingStarts(text)
            k == Cardinality(HeadingStarts(full_text))
        IN  /\ Cardinality(H) = k
            /\ Len(sections) = k
            /\ Len(heading_iter) = k
            /\ \A i \in 1..k :
                  LET q == Kth(H, i)
                      e == HeadingLineEnd(text, q)
                      nxt == IF i < k THEN Kth(H, i + 1) ELSE Len(text)
                      nxtMatch == IF i < k THEN heading_iter[i + 1].start ELSE Len(text)
                  IN  /\ e <= nxtMatch
                      /\ nxtMatch <= nxt
                      /\ \A j \in nxtMatch..(nxt - 1) : IsSpace(text[j + 1])
                      /\ sections[i].content = Strip(Slice(text, e, nxtMatch))
                      /\ sections[i].title = Strip(CollapseWs(Slice(text, q, e)))
                      /\ heading_iter[i].start <= q
                      /\ heading_iter[i].end = e

C1_Witness ==
    /\ Split_done
    /\ Len(sections) >= 2
    /\ sections[1].content # <<>>
    /\ sections[1].content # Slice(text, heading_iter[1].end, heading_iter[2].start)

\* C4: when the input has no heading match the splitter returns one section
\* titled "Full Document" with start_page 1 whose content is the first
\* SliceLen characters of the normalized text.
C4_FallbackSection ==
    (Split_done /\ HeadingStarts(full_text) = {}) =>
        /\ Len(sections) = 1
        /\ sections[1].title = FullDocument
        /\ sections[1].start_page = Some(1)
        /\ Len(sections[1].content)
             = (IF Len(text) < SliceLen THEN Len(text) ELSE SliceLen)
        /\ \A j \in 1..Len(sections[1].content) : sections[1].content[j] = text[j]

C4_Witness ==
    /\ Split_done
    /\ HeadingStarts(full_text) = {}
    /\ Len(text) > SliceLen
    /\ Len(sections) = 1
    /\ Len(sections[1].content) = SliceLen

\* What the normalization writes for one character.
DashImage(c) ==
    IF c = EmDash THEN <<" ", "-", " ">>
    ELSE IF c = EnDash THEN <<"-">>
    ELSE <<c>>

\* C9: the normalized text is the input with every em dash and every en dash
\* replaced by its hyphen form and every other character kept in place, and
\* it holds no em dash and no en dash.
C9_NormalizeOnlyDashes ==
    Split_done =>
        LET ems == {m \in 1..Len(full_text) : full_text[m] = EmDash}
            off(i) == (i - 1) + 2 * Cardinality({m \in ems : m < i})
        IN  /\ Len(text) = off(Len(full_text) + 1)
            /\ \A i \in 1..Len(full_text) :
                  Slice(text, off(i), off(i + 1)) = DashImage(full_text[i])
            /\ \A j \in 1..Len(text) : text[j] \notin {EmDash, EnDash}

C9_Witness ==
    /\ Split_done
    /\ \E i, j, k \in 1..Len(full_text) :
          /\ full_text[i] = EmDash
          /\ full_text[j] = EnDash
          /\ full_text[k] \notin {EmDash, EnDash}
    /\ Len(text) = Len(full_text) + 2

\* C3: on the heading path start_page is the number of the page marker that
\* is nearest before the start of the heading match, and it is null exactly
\* when no page marker precedes the heading match.
C3_NearestPrecedingMarker ==
    (Split_done /\ heading_iter # <<>>) =>
        \A i \in 1..Len(sections) :
            LET start == heading_iter[i].start
                M == {p \in MarkerStarts(text) : MarkerEnd(text, p) <= start}
            IN  sections[i].start_page
                  = (IF M = {} THEN None ELSE Some(MarkerNumber(text, Max(M))))

\* ------------------------------------------------------------------------
\* Properties of join_pages and of the splitter on joined documents
\* ------------------------------------------------------------------------

Join_done == pc = "split"

ContainsMarker(s) == MarkerStarts(s) # {}

ContainsPageLiteral(s) == \E p \in 0..Len(s) : StartsWithAt(s, PageLiteral, p)

\* The joined text holds exactly one marker per page, numbered 1..N in order
\* of position, the first at offset 0, each followed by a newline and the
\* text of its page, and a blank line separates a page from the next marker.
MarkersAndPagesInOrder ==
    LET M == MarkerStarts(full_text)
        N == Len(pages)
    IN  /\ Cardinality(M) = N
        /\ N = 0 => full_text = <<>>
        /\ \A k \in 1..N :
              LET p == Kth(M, k)
                  body == MarkerEnd(full_text, p) + 1
                  stop == IF k < N THEN Kth(M, k + 1) - 2 ELSE Len(full_text)
              IN  /\ k = 1 => p = 0
                  /\ MarkerNumber(full_text, p) = k
                  /\ Slice(full_text, body - 1, body) = <<NL>>
                  /\ body <= stop
                  /\ Slice(full_text, body, stop) = pages[k]
                  /\ k < N => Slice(full_text, stop, stop + 2) = <<NL, NL>>

\* C5 as stated: for any N pages the output of join_pages holds exactly N
\* page markers numbered 1..N in order and every page text after its marker.
C5_MarkersForAnyPages == Join_done => MarkersAndPagesInOrder

\* C5 as amended: the same, for pages none of which holds a page marker.
C5_MarkersForMarkerFreePages ==
    (Join_done /\ \A k \in 1..Len(pages) : ~ContainsMarker(pages[k]))
        => MarkersAndPagesInOrder

C5_Witness ==
    /\ Join_done
    /\ Len(pages) >= 3
    /\ \A k \in 1..Len(pages) : ~ContainsMarker(pages[k])
    /\ \E k \in 1..Len(pages) : pages[k] = <<>>
    /\ \E k \in 1..Len(pages) : ContainsPageLiteral(pages[k])

\* C10: in a document joined from N >= 1 pages that do not hold the literal
\* "[PAGE" and with at least one heading match, every section has a start_page
\* in 1..N and start_page never decreases from a section to the next.
C10_StartPagesInRange ==
    (/\ Split_done
     /\ Len(pages) >= 1
     /\ \A k \in 1..Len(pages) : ~ContainsPageLiteral(pages[k])
     /\ HeadingStarts(full_text) # {}) =>
        \A i \in 1..Len(sections) :
            /\ sections[i].start_page \in {Some(n) : n \in 1..Len(pages)}
            /\ i > 1 => sections[i - 1].start_page[1] <= sections[i].start_page[1]

C10_Witness ==
    /\ Split_done
    /\ \A k \in 1..Len(pages) : ~ContainsPageLiteral(pages[k])
    /\ Len(sections) >= 2
    /\ sections[1].start_page # None
    /\ sections[Len(sections)].start_page # None
    /\ sections[1].start_page[1] < sections[Len(sections)].start_page[1]

NonWs(s) == SelectSeq(s, NotSpace)

\* The titles and contents of the sections, in order.
RECURSIVE SectionsText(_)
SectionsText(secs) ==
    IF secs = <<>> THEN <<>>
    ELSE Head(secs).title \o Head(secs).content \o SectionsText(Tail(secs))

\* C2 as stated: the titles and contents of the sections, concatenated in
\* order, are the joined document up to whitespace.
C2_SectionsCoverDocument ==
    (Split_done /\ Len(pages) >= 1) =>
        NonWs(SectionsText(sections)) = NonWs(full_text)

\* C2 as amended: when the joined document has a heading match, the titles
\* and contents of the sections, concatenated in order, are the normalized
\* document from its first heading to its end up to whitespace; what stands
\* before the first heading, the first page marker included, is in no section.
C2_SectionsCoverFromFirstHeading ==
    (Split_done /\ Len(pages) >= 1 /\ HeadingStarts(text) # {}) =>
        LET first == Min(HeadingStarts(text))
        IN  /\ NonWs(SectionsText(sections)) = NonWs(Slice(text, first, Len(text)))
            /\ MarkerEnd(text, 0) <= first

C2_Witness ==
    /\ Split_done
    /\ Len(pages) >= 2
    /\ Len(sections) >= 2
    /\ \E i \in 1..Len(sections) : sections[i].content # <<>>
    /\ \E j \in 1..Len(text) : text[j] = "-"
    /\ HeadingStarts(text) # {}
    /\ Min(HeadingStarts(text)) > MarkerEnd(text, 0) + 1

\* ------------------------------------------------------------------------
\* Properties of the finishing loop and of main
\* ------------------------------------------------------------------------

\* Every finished section of every record.
FinishedSections ==
    UNION {{r.sections[i] : i \in 1..Len(r.sections)} :
              r \in {all_sports_data[n] : n \in 1..Len(all_sports_data)}}

NonSpaceAt(s) == {i \in 1..Len(s) : ~IsSpace(s[i])}

WordStartsAt(s) == {i \in NonSpaceAt(s) : i = 1 \/ IsSpace(s[i - 1])}

\* The length of s once every whitespace run is one space and the outer
\* whitespace is gone: its other characters and one space between two words.
CollapsedLen(s) ==
    IF NonSpaceAt(s) = {} THEN 0
    ELSE Cardinality(NonSpaceAt(s)) + Cardinality(WordStartsAt(s)) - 1

\* sn is the first SnippetLen characters of the collapsed, trimmed s, followed
\* by the truncation marker when marked holds.
SnippetIs(sn, s, marked) ==
    LET ns == NonSpaceAt(s)
        ws == WordStartsAt(s)
        pos(i) == Cardinality({m \in ns : m <= i}) + Cardinality({m \in ws : m <= i}) - 1
        L == CollapsedLen(s)
        n == IF L < SnippetLen THEN L ELSE SnippetLen
    IN  /\ Len(sn) = n + (IF marked THEN 1 ELSE 0)
        /\ marked => sn[Len(sn)] = Ellipsis
        /\ \A i \in ns : pos(i) <= n => sn[pos(i)] = s[i]
        /\ \A j \in 1..n : IsSpace(sn[j]) => sn[j] = " "
        /\ Cardinality({j \in 1..n : ~IsSpace(sn[j])})
             = Cardinality({i \in ns : pos(i) <= n})

\* C6 as stated: the snippet is the collapsed, trimmed content cut to
\* SnippetLen characters, with the truncation marker exactly when the
\* content is longer than SnippetLen; it has at most SnippetLen + 1 characters.
C6_MarkerWhenContentLong ==
    \A f \in FinishedSections :
        /\ SnippetIs(f.snippet, f.content, Len(f.content) > SnippetLen)
        /\ Len(f.snippet) <= SnippetLen + 1

\* C6 as amended: the same, with the truncation marker exactly when the
\* collapsed, trimmed content is longer than SnippetLen.
C6_MarkerWhenCollapsedLong ==
    \A f \in FinishedSections :
        /\ SnippetIs(f.snippet, f.content, CollapsedLen(f.content) > SnippetLen)
        /\ Len(f.snippet) <= SnippetLen + 1

C6_Witness ==
    \E f \in FinishedSections :
        /\ CollapsedLen(f.content) > SnippetLen
        /\ CollapsedLen(f.content) < Len(f.content)
        /\ Len(f.snippet) = SnippetLen + 1

SectionFields == {"id", "title", "content", "snippet", "start_page"}

\* id is prefix-rule-n with n written in decimal without a leading zero.
IsRuleId(id, prefix, n) ==
    LET pre == prefix \o RuleInfix
        num == Slice(id, Len(pre), Len(id))
    IN  /\ Slice(id, 0, Len(pre)) = pre
        /\ num # <<>>
        /\ \A j \in 1..Len(num) : IsDigit(num[j])
        /\ num[1] # "0"
        /\ StrToInt(num) = n

\* C7: the finishing loop turns the k sections of the splitter into k
\* finished sections in the same order, the i-th with id prefix-rule-i, all
\* ids distinct, each with the fields id, title, content, snippet, start_page.
C7_FinishedIds ==
    [][pc = "finish" =>
          LET fin == all_sports_data'[Len(all_sports_data')].sections
              k == Len(sections)
          IN  /\ Len(all_sports_data') = Len(all_sports_data) + 1
              /\ Len(fin) = k
              /\ \A i \in 1..k :
                    /\ DOMAIN fin[i] = SectionFields
                    /\ IsRuleId(fin[i].id, Filename(Sport.sport), i)
                    /\ fin[i].title = sections[i].title
                    /\ fin[i].content = sections[i].content
                    /\ fin[i].start_page = sections[i].start_page
              /\ \A i, j \in 1..k : i # j => fin[i].id # fin[j].id]_vars

C7_Witness ==
    \E n \in 1..Len(all_sports_data) :
        /\ Len(all_sports_data[n].sections) >= 10
        /\ all_sports_data[n].sections[10].start_page = Some(10)
        /\ all_sports_data[n].sections[10].id # all_sports_data[n].sections[1].id

\* What stdout tells about the run of process_sport for the sport name.
DownloadSucceeded(name) ==
    \E j \in 1..(Len(stdout) - 1) :
        stdout[j] = <<"Processing", name>> /\ stdout[j + 1] = <<"Downloaded">>

ExtractedSomePages(name) ==
    \E j \in 1..(Len(stdout) - 2) :
        /\ stdout[j] = <<"Processing", name>>
        /\ stdout[j + 2][1] = "Extracted"
        /\ stdout[j + 2][2] > 0

SportSucceeded(entry) ==
    DownloadSucceeded(entry.sport) /\ ExtractedSomePages(entry.sport)

\* C8: join_pages and split_into_sections run for a sport only after its
\* download succeeded and its extraction returned pages; the records of
\* all_sports_data are those of the sports that succeeded, in configuration
\* order, and a sport that failed has no record; the output holds them.
C8_OnlySucceededSports ==
    /\ pc \in {"join", "split", "finish"} =>
          /\ SportSucceeded(Sport)
          /\ pages # <<>>
    /\ LET finished == SelectSeq(SubSeq(SPORTS_RULEBOOKS, 1, sport_i), SportSucceeded)
       IN  /\ Len(all_sports_data) = Len(finished)
           /\ \A n \in 1..Len(finished) :
                 /\ all_sports_data[n].sport = finished[n].sport
                 /\ all_sports_data[n].source_url = finished[n].url
    /\ pc = "done" => output[1].sports = all_sports_data

C8_Witness ==
    /\ pc = "done"
    /\ Len(output[1].sports) >= 1
    /\ ~SportSucceeded(SPORTS_RULEBOOKS[1])
    /\ output[1].sports[1].sport = SPORTS_RULEBOOKS[2].sport

====
